---- MODULE Spec2Model ----
(***************************************************************************)
(* The repository mirror of fep-mcp (src/repository.ts): the module-level  *)
(* pair currentRepo / currentRepoPath, the temporary directories on disk,  *)
(* the upstream repository, and the async functions that act on them.      *)
(*                                                                         *)
(* Every async function is split at its await points.  An awaited          *)
(* operation (Deno.remove, Deno.makeTempDir, cloneRepository, fetch,       *)
(* openRepository, setTimeout) has three moments: it is dispatched by the  *)
(* code before the await (pc "..._wait"), it executes against the disk or  *)
(* the network (an "Exec" action, pc "..._ret"), and the function resumes  *)
(* with its outcome (a "Resume" action).  The read-only operations have no *)
(* effect after their I/O, so their execution and resumption are one step. *)
(***************************************************************************)
EXTENDS Integers, Sequences, FiniteSets, TLC

\* ------------------------------------------------------------------ bounds

\* Temporary directories Deno.makeTempDir can hand out in one run.
MaxDirs == 3
\* Versions the upstream repository goes through (1 is the first).
MaxRemoteVer == 2

\* --------------------------------------------------------------- constants

MAX_RETRIES == 3
BASE_DELAY_MS == 1000

\* null for currentRepoPath; directories are named 1..MaxDirs.
NoPath == 0
\* null for lastError (and the empty message).
NoError == ""
\* null for currentRepo; an open repository remembers the directory it was
\* opened at and the remote-tracking version it saw there.
NoRepo == [open |-> FALSE, path |-> NoPath, refs |-> 0]

Dirs == 1..MaxDirs
\* Callers: the sequential specification uses the first one only; where
\* calls overlap, the last two only read.
Procs == {1, 2, 3}
SeqProcs == {1}
Readers == {2, 3}

\* Failure messages of the git client and of the file system.
Reasons == {"connection reset", "timed out"}

\* Relative paths the collaborators ask for: the index, one document and
\* its directory.
RelPaths == {"index.json", "fep/1b12", "fep/1b12/fep-1b12.md"}

\* ------------------------------------------------------------ the upstream

\* What relative path p is in version v of the upstream tree: the index is
\* there from the start, the document and its directory from version 2.
TreeKind(v, p) ==
    IF v < 1 THEN "none"
    ELSE IF p = "index.json" THEN "file"
    ELSE IF v < 2 THEN "none"
    ELSE IF p = "fep/1b12" THEN "dir"
    ELSE IF p = "fep/1b12/fep-1b12.md" THEN "file"
    ELSE "none"

\* The text of file p in version v: every version rewrites every file.
Content(v, p) == <<p, v>>

\* The entries of directory p in version v.
Entries(v, p) == IF TreeKind(v, p) = "dir" THEN <<"fep-1b12.md">> ELSE <<>>

\* ---------------------------------------------------------------- the disk

AbsentDir == [kind |-> "absent", tree |-> 0, refs |-> 0]
EmptyDir == [kind |-> "empty", tree |-> 0, refs |-> 0]
\* What a failed clone or an interrupted recursive removal leaves behind.
PartialDir == [kind |-> "partial", tree |-> 0, refs |-> 0]
\* A full clone: the checked-out tree and the remote-tracking refs.
CloneDir(v) == [kind |-> "clone", tree |-> v, refs |-> v]

\* What is at relative path p under directory d of the disk dk.
DirAt(dk, d) == IF d \in Dirs THEN dk[d] ELSE AbsentDir

PathKind(dk, d, p) ==
    IF DirAt(dk, d).kind = "clone" THEN TreeKind(DirAt(dk, d).tree, p) ELSE "none"

\* ------------------------------------------------------------------- state

VARIABLES
    currentRepo,      \* repository.ts:14
    currentRepoPath,  \* repository.ts:17
    disk,             \* the temporary directories
    nextDir,          \* directories handed out so far
    remote,           \* the upstream repository's version
    calls,            \* each caller's call in progress or last result
    hist,             \* the last completed lifecycle call
    proc,             \* the server process: main's position, the exit code
    reqs              \* each caller's request or signal handler

vars ==
    <<currentRepo, currentRepoPath, disk, nextDir, remote, calls, hist, proc, reqs>>

NoResult ==
    [kind |-> "none", err |-> "", attempts |-> 0, cause |-> NoError, rel |-> "",
     path |-> NoPath, text |-> <<>>, flag |-> FALSE, names |-> <<>>]

Value == [NoResult EXCEPT !.kind = "value"]

Failure(err, cause) == [NoResult EXCEPT !.kind = "error", !.err = err, !.cause = cause]

NoRet == [ok |-> FALSE, err |-> NoError, path |-> NoPath, repo |-> NoRepo]

NoHist == [op |-> "none", ok |-> FALSE, path |-> NoPath, ver |-> 0]

\* A caller with no call: the locals of every function, at their defaults.
\*   dest      destPath / repoPath / the directory being removed or read
\*   ret       the outcome of the awaited operation
\*   errs      the failure of each clone attempt so far, in order
\*   waited    milliseconds of backoff slept through
\*   rmFailed  the directories whose removal by this call failed and was
\*             logged ("Warning: Failed to cleanup old repo at ...")
\*   io        the call dispatched a file-system or network operation
\*   fetched   the upstream version the call's fetch brought in
\*   prev      the last completed lifecycle call when this call started
\*   seenPath  currentRepoPath when this call started
\*   seenKind  what was at fullPath on disk when this read started
NoCall ==
    [op |-> "none", pc |-> "idle", arg |-> "", dest |-> NoPath, attempt |-> 0,
     lastError |-> NoError, errs |-> <<>>, waited |-> 0, delayMs |-> 0,
     ret |-> NoRet, rmFailed |-> {}, io |-> FALSE, fetched |-> 0,
     prev |-> NoHist, seenPath |-> NoPath, seenKind |-> "none",
     result |-> NoResult]

\* No exit code: the process is running.
NoExit == -1

\* The server process before main has run: nothing created, nothing
\* registered, no signal listener, the transport not connected.
NoProc ==
    [pc |-> "start", server |-> FALSE, tools |-> FALSE, resources |-> FALSE,
     listeners |-> FALSE, connected |-> FALSE, exit |-> NoExit]

\* What a handler gave the protocol layer: a result it returned (a tool's
\* content with or without isError, a resource's contents) or an error it
\* threw.  text is the text of the result, or the message of the error,
\* piece by piece.
NoOut == [kind |-> "none", isError |-> FALSE, text |-> <<>>]

\* A caller with no request: the handler's arguments and locals.
\*   kind       the tool or resource requested, or "shutdown" for a signal
\*   hit        the search query matches the title and the text
\*   swallowed  document reads whose failure search_feps ignored
NoReq ==
    [kind |-> "none", pc |-> "idle", slug |-> "", hit |-> FALSE,
     swallowed |-> 0, out |-> NoOut]

Init ==
    /\ currentRepo = NoRepo
    /\ currentRepoPath = NoPath
    /\ disk = [d \in Dirs |-> AbsentDir]
    /\ nextDir = 0
    /\ remote = 1
    /\ calls = [c \in Procs |-> NoCall]
    /\ hist = NoHist
    /\ proc = NoProc
    /\ reqs = [c \in Procs |-> NoReq]

\* ----------------------------------------------------------------- helpers

Running(c) == calls[c].pc \notin {"idle", "done"}

NoneRunning == \A c \in Procs : ~Running(c)

\* The slip of a lock around the handle: no call starts while another runs.
CanStartLocked(c, seq) == ~Running(c) /\ NoneRunning

\* A caller may issue a call when its previous one has returned; when calls
\* do not overlap (seq), when every other caller's has returned too.
CanStart(c, seq) == ~Running(c) /\ (seq => NoneRunning)

\* A fresh call of op by caller c.
Begin(c, op) ==
    [NoCall EXCEPT !.op = op, !.prev = hist, !.seenPath = currentRepoPath]

\* The call returned normally or threw: its locals stay for inspection.
Done(call, result) == [call EXCEPT !.pc = "done", !.result = result]

Record(op, ok, path, ver) == [op |-> op, ok |-> ok, path |-> path, ver |-> ver]

\* Initialize calls that have not been given their directory yet.
PendingDirs ==
    Cardinality({c \in Procs :
        calls[c].pc \in {"init_rm_wait", "init_rm_ret", "init_mk_wait"}})

RECURSIVE Pow2(_)
Pow2(n) == IF n <= 0 THEN 1 ELSE 2 * Pow2(n - 1)

\* --------------------------------------------------------- cleanupOldRepo

\* The slip of a cleanupOldRepo that rethrows what Deno.remove threw.
RemoveExecRaises(c) ==
    /\ calls[c].pc \in {"init_rm_wait", "retry_rm_wait", "cleanup_rm_wait"}
    /\ LET call == calls[c]
           d == call.dest
           after == CASE call.pc = "init_rm_wait" -> "init_rm_ret"
                      [] call.pc = "retry_rm_wait" -> "retry_rm_ret"
                      [] OTHER -> "cleanup_rm_ret"
       IN  \/ /\ disk' = [disk EXCEPT ![d] = AbsentDir]
              /\ calls' = [calls EXCEPT ![c] = [call EXCEPT !.pc = after]]
           \/ /\ disk[d].kind # "absent"
              /\ \E left \in {disk[d], PartialDir} :
                    disk' = [disk EXCEPT ![d] = left]
              /\ calls' = [calls EXCEPT ![c] =
                                Done([call EXCEPT !.rmFailed = call.rmFailed \cup {d}],
                                     Failure("IOError", NoError))]
    /\ UNCHANGED <<currentRepo, currentRepoPath, nextDir, remote, hist,
                   proc, reqs>>

\* await Deno.remove(path, { recursive: true }) inside cleanupOldRepo: the
\* directory goes away, or it is not there (NotFound, ignored), or the
\* removal fails and is logged, leaving the directory as it was or half
\* removed.  cleanupOldRepo swallows every outcome.
RemoveExec(c) ==
    /\ calls[c].pc \in {"init_rm_wait", "retry_rm_wait", "cleanup_rm_wait"}
    /\ LET call == calls[c]
           d == call.dest
           after == CASE call.pc = "init_rm_wait" -> "init_rm_ret"
                      [] call.pc = "retry_rm_wait" -> "retry_rm_ret"
                      [] OTHER -> "cleanup_rm_ret"
       IN  \/ /\ disk' = [disk EXCEPT ![d] = AbsentDir]
              /\ calls' = [calls EXCEPT ![c] = [call EXCEPT !.pc = after]]
           \/ /\ disk[d].kind # "absent"
              /\ \E left \in {disk[d], PartialDir} :
                    disk' = [disk EXCEPT ![d] = left]
              /\ calls' = [calls EXCEPT ![c] =
                                [call EXCEPT !.pc = after,
                                             !.rmFailed = call.rmFailed \cup {d}]]
    /\ UNCHANGED <<currentRepo, currentRepoPath, nextDir, remote, hist,
                   proc, reqs>>

\* ------------------------------------------------------ cleanupRepository

\* The slip of a teardown that insists on an initialized handle.
CleanupBeginThrows(c, seq) ==
    /\ CanStart(c, seq)
    /\ LET call == Begin(c, "teardown")
       IN  IF currentRepoPath # NoPath
           THEN /\ calls' = [calls EXCEPT ![c] =
                        [call EXCEPT !.pc = "cleanup_rm_wait",
                                     !.dest = currentRepoPath, !.io = TRUE]]
                /\ hist' = hist
           ELSE /\ calls' = [calls EXCEPT ![c] =
                        Done(call, Failure("NotInitialized", NoError))]
                /\ hist' = Record("teardown", FALSE, NoPath, 0)
    /\ UNCHANGED <<currentRepo, currentRepoPath, disk, nextDir, remote,
                   proc, reqs>>

CleanupBegin(c, seq) ==
    /\ CanStart(c, seq)
    /\ LET call == Begin(c, "teardown")
       IN  IF currentRepoPath # NoPath
           THEN /\ calls' = [calls EXCEPT ![c] =
                        [call EXCEPT !.pc = "cleanup_rm_wait",
                                     !.dest = currentRepoPath, !.io = TRUE]]
                /\ hist' = hist
           ELSE /\ calls' = [calls EXCEPT ![c] = Done(call, Value)]
                /\ hist' = Record("teardown", TRUE, NoPath, 0)
    /\ UNCHANGED <<currentRepo, currentRepoPath, disk, nextDir, remote,
                   proc, reqs>>

\* The slip of clearing the path and leaving the repository object set.
CleanupResumeKeepsRepo(c) ==
    /\ calls[c].pc = "cleanup_rm_ret"
    /\ currentRepoPath' = NoPath
    /\ calls' = [calls EXCEPT ![c] = Done(calls[c], Value)]
    /\ hist' = Record("teardown", TRUE, NoPath, 0)
    /\ UNCHANGED <<currentRepo, disk, nextDir, remote, proc, reqs>>

CleanupResume(c) ==
    /\ calls[c].pc = "cleanup_rm_ret"
    /\ currentRepo' = NoRepo
    /\ currentRepoPath' = NoPath
    /\ calls' = [calls EXCEPT ![c] = Done(calls[c], Value)]
    /\ hist' = Record("teardown", TRUE, NoPath, 0)
    /\ UNCHANGED <<disk, nextDir, remote, proc, reqs>>

\* --------------------------------------------------- initializeRepository

\* The slip of cloning anew without removing the previous working copy.
InitBeginNoCleanup(c, seq) ==
    /\ CanStart(c, seq)
    /\ nextDir + PendingDirs < MaxDirs
    /\ calls' = [calls EXCEPT ![c] =
            [Begin(c, "initialize") EXCEPT !.pc = "init_mk_wait", !.io = TRUE]]
    /\ UNCHANGED <<currentRepo, currentRepoPath, disk, nextDir, remote, hist,
                   proc, reqs>>

\* if (currentRepoPath) { await cleanupOldRepo(currentRepoPath); ... }
\* const repoPath = await createTempDir();
InitBegin(c, seq) ==
    /\ CanStart(c, seq)
    /\ nextDir + PendingDirs < MaxDirs
    /\ LET call == Begin(c, "initialize")
       IN  calls' = [calls EXCEPT ![c] =
               IF currentRepoPath # NoPath
               THEN [call EXCEPT !.pc = "init_rm_wait",
                                 !.dest = currentRepoPath, !.io = TRUE]
               ELSE [call EXCEPT !.pc = "init_mk_wait", !.io = TRUE]]
    /\ UNCHANGED <<currentRepo, currentRepoPath, disk, nextDir, remote, hist,
                   proc, reqs>>

\* The slip of removing the old working copy and leaving the pair set.
InitRmResumeKeepsPair(c) ==
    /\ calls[c].pc = "init_rm_ret"
    /\ calls' = [calls EXCEPT ![c] = [calls[c] EXCEPT !.pc = "init_mk_wait"]]
    /\ UNCHANGED <<currentRepo, currentRepoPath, disk, nextDir, remote, hist,
                   proc, reqs>>

\* currentRepo = null; currentRepoPath = null; then createTempDir().
InitRmResume(c) ==
    /\ calls[c].pc = "init_rm_ret"
    /\ currentRepo' = NoRepo
    /\ currentRepoPath' = NoPath
    /\ calls' = [calls EXCEPT ![c] = [calls[c] EXCEPT !.pc = "init_mk_wait"]]
    /\ UNCHANGED <<disk, nextDir, remote, hist, proc, reqs>>

\* Deno.makeTempDir: a new, empty directory under a name never used before.
MkTempExec(c) ==
    /\ calls[c].pc = "init_mk_wait"
    /\ nextDir < MaxDirs
    /\ nextDir' = nextDir + 1
    /\ disk' = [disk EXCEPT ![nextDir + 1] = EmptyDir]
    /\ calls' = [calls EXCEPT ![c] =
            [calls[c] EXCEPT !.pc = "init_mk_ret",
                             !.ret = [NoRet EXCEPT !.ok = TRUE, !.path = nextDir + 1]]]
    /\ UNCHANGED <<currentRepo, currentRepoPath, remote, hist, proc, reqs>>

\* cloneWithRetry(repoPath): lastError = null, attempt = 1, first clone.
InitMkResume(c) ==
    /\ calls[c].pc = "init_mk_ret"
    /\ calls' = [calls EXCEPT ![c] =
            [calls[c] EXCEPT !.pc = "clone_wait", !.dest = calls[c].ret.path,
                             !.attempt = 1, !.lastError = NoError]]
    /\ UNCHANGED <<currentRepo, currentRepoPath, disk, nextDir, remote, hist,
                   proc, reqs>>

\* cloneRepository(FEP_REPO_URL, destPath): the git client clones only into
\* a missing or empty directory, and then checks out upstream as it is now;
\* a failed attempt leaves the directory as it was or partly written.
CloneExec(c) ==
    /\ calls[c].pc = "clone_wait"
    /\ LET call == calls[c]
           d == call.dest
       IN  \/ /\ disk[d].kind \in {"absent", "empty"}
              /\ disk' = [disk EXCEPT ![d] = CloneDir(remote)]
              /\ calls' = [calls EXCEPT ![c] =
                    [call EXCEPT !.pc = "clone_ret",
                                 !.ret = [NoRet EXCEPT !.ok = TRUE,
                                    !.repo = [open |-> TRUE, path |-> d, refs |-> remote]]]]
           \/ \E reason \in Reasons, left \in {disk[d], PartialDir} :
                /\ disk' = [disk EXCEPT ![d] = left]
                /\ calls' = [calls EXCEPT ![c] =
                      [call EXCEPT !.pc = "clone_ret",
                                   !.ret = [NoRet EXCEPT !.err = reason]]]
    /\ UNCHANGED <<currentRepo, currentRepoPath, nextDir, remote, hist,
                   proc, reqs>>

\* The slip of keeping the first failure instead of the latest.
RecordFirstError(last, reason) == IF last = NoError THEN reason ELSE last

\* lastError = error instanceof Error ? error : new Error(String(error))
RecordError(last, reason) == reason

\* if (attempt < MAX_RETRIES)
ShouldRetry(attempt) == attempt < MAX_RETRIES

\* The slip of an exponent that starts at 1 instead of 0.
BackoffDelayOffByOne(attempt) == BASE_DELAY_MS * Pow2(attempt)

\* const delayMs = BASE_DELAY_MS * Math.pow(2, attempt - 1)
BackoffDelay(attempt) == BASE_DELAY_MS * Pow2(attempt - 1)

\* throw new Error(`Failed to clone FEP repository after ${MAX_RETRIES}
\* attempts: ${lastError?.message}`)
CloneError(lastError) ==
    [Failure("CloneFailed", lastError) EXCEPT !.attempts = MAX_RETRIES]

\* The slip of putting the previous handle back when every attempt failed.
CloneResumeRollsBack(c) ==
    /\ calls[c].pc = "clone_ret"
    /\ LET call == calls[c]
           failed == [call EXCEPT !.lastError = RecordError(call.lastError, call.ret.err),
                                  !.errs = Append(call.errs, call.ret.err)]
       IN  IF call.ret.ok
           THEN /\ currentRepo' = call.ret.repo
                /\ currentRepoPath' = call.dest
                /\ calls' = [calls EXCEPT ![c] =
                        Done(call, [Value EXCEPT !.path = call.dest])]
                /\ hist' = Record("initialize", TRUE, call.dest, call.ret.repo.refs)
           ELSE IF ShouldRetry(call.attempt)
           THEN /\ calls' = [calls EXCEPT ![c] =
                        [failed EXCEPT !.pc = "delay_wait",
                                       !.delayMs = BackoffDelay(call.attempt)]]
                /\ UNCHANGED <<currentRepo, currentRepoPath, hist>>
           ELSE /\ calls' = [calls EXCEPT ![c] =
                        Done(failed, CloneError(failed.lastError))]
                /\ hist' = Record("initialize", FALSE, NoPath, 0)
                /\ currentRepoPath' = call.seenPath
                /\ currentRepo' = IF call.seenPath = NoPath THEN NoRepo
                                  ELSE [open |-> TRUE, path |-> call.seenPath, refs |-> 0]
    /\ UNCHANGED <<disk, nextDir, remote, proc, reqs>>

\* After await cloneRepository: return repo (and initializeRepository sets
\* the pair and returns the path), or the catch block.
CloneResume(c) ==
    /\ calls[c].pc = "clone_ret"
    /\ LET call == calls[c]
           failed == [call EXCEPT !.lastError = RecordError(call.lastError, call.ret.err),
                                  !.errs = Append(call.errs, call.ret.err)]
       IN  IF call.ret.ok
           THEN /\ currentRepo' = call.ret.repo
                /\ currentRepoPath' = call.dest
                /\ calls' = [calls EXCEPT ![c] =
                        Done(call, [Value EXCEPT !.path = call.dest])]
                /\ hist' = Record("initialize", TRUE, call.dest, call.ret.repo.refs)
           ELSE IF ShouldRetry(call.attempt)
           THEN /\ calls' = [calls EXCEPT ![c] =
                        [failed EXCEPT !.pc = "delay_wait",
                                       !.delayMs = BackoffDelay(call.attempt)]]
                /\ UNCHANGED <<currentRepo, currentRepoPath, hist>>
           ELSE /\ calls' = [calls EXCEPT ![c] =
                        Done(failed, CloneError(failed.lastError))]
                /\ hist' = Record("initialize", FALSE, NoPath, 0)
                /\ UNCHANGED <<currentRepo, currentRepoPath>>
    /\ UNCHANGED <<disk, nextDir, remote, proc, reqs>>

\* The slip of retrying without removing what the failed attempt left.
DelayResumeNoCleanup(c) ==
    /\ calls[c].pc = "delay_wait"
    /\ calls' = [calls EXCEPT ![c] =
            [calls[c] EXCEPT !.pc = "clone_wait",
                             !.attempt = calls[c].attempt + 1,
                             !.waited = calls[c].waited + calls[c].delayMs]]
    /\ UNCHANGED <<currentRepo, currentRepoPath, disk, nextDir, remote, hist,
                   proc, reqs>>

\* await delay(delayMs) is over; then cleanupOldRepo(destPath).
DelayResume(c) ==
    /\ calls[c].pc = "delay_wait"
    /\ calls' = [calls EXCEPT ![c] =
            [calls[c] EXCEPT !.pc = "retry_rm_wait",
                             !.waited = calls[c].waited + calls[c].delayMs]]
    /\ UNCHANGED <<currentRepo, currentRepoPath, disk, nextDir, remote, hist,
                   proc, reqs>>

\* attempt++ and the next cloneRepository into the same destPath.
RetryRmResume(c) ==
    /\ calls[c].pc = "retry_rm_ret"
    /\ calls' = [calls EXCEPT ![c] =
            [calls[c] EXCEPT !.pc = "clone_wait",
                             !.attempt = calls[c].attempt + 1]]
    /\ UNCHANGED <<currentRepo, currentRepoPath, disk, nextDir, remote, hist,
                   proc, reqs>>

\* ------------------------------------------------------ refreshRepository

\* new Error("Repository not initialized. Call initializeRepository() first.")
NotInitialized == Failure("NotInitialized", NoError)

\* new Error(`Failed to refresh repository: ${message}`)
FetchError(cause) == Failure("FetchFailed", cause)

\* The slip of a guard inside the try block: its error comes out wrapped.
RefreshBeginWrapsGuard(c, seq) ==
    /\ CanStart(c, seq)
    /\ LET call == Begin(c, "refresh")
       IN  IF currentRepo = NoRepo \/ currentRepoPath = NoPath
           THEN /\ calls' = [calls EXCEPT ![c] =
                        Done(call, FetchError(NotInitialized.err))]
                /\ hist' = Record("refresh", FALSE, NoPath, 0)
           ELSE /\ calls' = [calls EXCEPT ![c] =
                        [call EXCEPT !.pc = "fetch_wait",
                                     !.dest = currentRepo.path, !.io = TRUE]]
                /\ hist' = hist
    /\ UNCHANGED <<currentRepo, currentRepoPath, disk, nextDir, remote,
                   proc, reqs>>

\* if (!currentRepo || !currentRepoPath) throw ...; otherwise
\* currentRepo.getRemote("origin") and await remote.fetch([]).
RefreshBegin(c, seq) ==
    /\ CanStart(c, seq)
    /\ LET call == Begin(c, "refresh")
       IN  IF currentRepo = NoRepo \/ currentRepoPath = NoPath
           THEN /\ calls' = [calls EXCEPT ![c] = Done(call, NotInitialized)]
                /\ hist' = Record("refresh", FALSE, NoPath, 0)
           ELSE /\ calls' = [calls EXCEPT ![c] =
                        [call EXCEPT !.pc = "fetch_wait",
                                     !.dest = currentRepo.path, !.io = TRUE]]
                /\ hist' = hist
    /\ UNCHANGED <<currentRepo, currentRepoPath, disk, nextDir, remote,
                   proc, reqs>>

\* The slip of a fetch that also checks out what it fetched (a pull).
FetchExecChecksOut(c) ==
    /\ calls[c].pc = "fetch_wait"
    /\ LET call == calls[c]
           d == call.dest
       IN  \/ /\ disk[d].kind = "clone"
              /\ disk' = [disk EXCEPT ![d] = CloneDir(remote)]
              /\ calls' = [calls EXCEPT ![c] =
                    [call EXCEPT !.pc = "fetch_ret", !.fetched = remote,
                                 !.ret = [NoRet EXCEPT !.ok = TRUE]]]
           \/ \E reason \in Reasons :
                /\ disk' = disk
                /\ calls' = [calls EXCEPT ![c] =
                      [call EXCEPT !.pc = "fetch_ret",
                                   !.ret = [NoRet EXCEPT !.err = reason]]]
    /\ UNCHANGED <<currentRepo, currentRepoPath, nextDir, remote, hist,
                   proc, reqs>>

\* remote.fetch([]): the remote-tracking refs of the clone move to what
\* upstream has now; the checked-out tree is not touched.  Or it fails.
FetchExec(c) ==
    /\ calls[c].pc = "fetch_wait"
    /\ LET call == calls[c]
           d == call.dest
       IN  \/ /\ disk[d].kind = "clone"
              /\ disk' = [disk EXCEPT ![d].refs = remote]
              /\ calls' = [calls EXCEPT ![c] =
                    [call EXCEPT !.pc = "fetch_ret", !.fetched = remote,
                                 !.ret = [NoRet EXCEPT !.ok = TRUE]]]
           \/ \E reason \in Reasons :
                /\ disk' = disk
                /\ calls' = [calls EXCEPT ![c] =
                      [call EXCEPT !.pc = "fetch_ret",
                                   !.ret = [NoRet EXCEPT !.err = reason]]]
    /\ UNCHANGED <<currentRepo, currentRepoPath, nextDir, remote, hist,
                   proc, reqs>>

\* After the fetch: the catch block, or openRepository(currentRepoPath).
RefreshFetchResume(c) ==
    /\ calls[c].pc = "fetch_ret"
    /\ LET call == calls[c]
       IN  IF call.ret.ok
           THEN /\ calls' = [calls EXCEPT ![c] =
                        [call EXCEPT !.pc = "open_wait", !.dest = currentRepoPath]]
                /\ hist' = hist
           ELSE /\ calls' = [calls EXCEPT ![c] = Done(call, FetchError(call.ret.err))]
                /\ hist' = Record("refresh", FALSE, currentRepoPath, 0)
    /\ UNCHANGED <<currentRepo, currentRepoPath, disk, nextDir, remote,
                   proc, reqs>>

\* openRepository(path): a handle on the clone at path, or a failure.
OpenExec(c) ==
    /\ calls[c].pc = "open_wait"
    /\ LET call == calls[c]
           d == call.dest
       IN  \/ /\ d \in Dirs
              /\ disk[d].kind = "clone"
              /\ calls' = [calls EXCEPT ![c] =
                    [call EXCEPT !.pc = "open_ret",
                                 !.ret = [NoRet EXCEPT !.ok = TRUE,
                                    !.repo = [open |-> TRUE, path |-> d,
                                              refs |-> disk[d].refs]]]]
           \/ \E reason \in Reasons :
                calls' = [calls EXCEPT ![c] =
                    [call EXCEPT !.pc = "open_ret",
                                 !.ret = [NoRet EXCEPT !.err = reason]]]
    /\ UNCHANGED <<currentRepo, currentRepoPath, disk, nextDir, remote, hist,
                   proc, reqs>>

\* The slip of dropping the repository object when the reopen fails.
RefreshOpenResumeDropsRepo(c) ==
    /\ calls[c].pc = "open_ret"
    /\ LET call == calls[c]
       IN  IF call.ret.ok
           THEN /\ currentRepo' = call.ret.repo
                /\ calls' = [calls EXCEPT ![c] = Done(call, Value)]
                /\ hist' = Record("refresh", TRUE, currentRepoPath, call.fetched)
           ELSE /\ currentRepo' = NoRepo
                /\ calls' = [calls EXCEPT ![c] = Done(call, FetchError(call.ret.err))]
                /\ hist' = Record("refresh", FALSE, currentRepoPath, 0)
    /\ UNCHANGED <<currentRepoPath, disk, nextDir, remote, proc, reqs>>

\* currentRepo = await openRepository(currentRepoPath), or the catch block.
RefreshOpenResume(c) ==
    /\ calls[c].pc = "open_ret"
    /\ LET call == calls[c]
       IN  IF call.ret.ok
           THEN /\ currentRepo' = call.ret.repo
                /\ calls' = [calls EXCEPT ![c] = Done(call, Value)]
                /\ hist' = Record("refresh", TRUE, currentRepoPath, call.fetched)
           ELSE /\ currentRepo' = currentRepo
                /\ calls' = [calls EXCEPT ![c] = Done(call, FetchError(call.ret.err))]
                /\ hist' = Record("refresh", FALSE, currentRepoPath, 0)
    /\ UNCHANGED <<currentRepoPath, disk, nextDir, remote, proc, reqs>>

\* ------------------------------------------ readFile, fileExists, listDirectory

\* The slip of leaving the guard out.
UninitializedNever(path) == FALSE

\* if (!currentRepoPath)
Uninitialized(path) == path = NoPath

\* The first lines of the three read operations: the guard, then
\* fullPath = `${currentRepoPath}/${relativePath}` and the I/O is dispatched.
\* fileExists answers false where the other two throw.
ReadBegin(c, seq, op, p) ==
    /\ CanStart(c, seq)
    /\ LET call == [Begin(c, op) EXCEPT !.arg = p,
                        !.seenKind = PathKind(disk, currentRepoPath, p)]
       IN  calls' = [calls EXCEPT ![c] =
               IF Uninitialized(currentRepoPath)
               THEN Done(call, IF op = "fileExists" THEN Value ELSE NotInitialized)
               ELSE [call EXCEPT !.pc = "io_wait", !.dest = currentRepoPath,
                                 !.io = TRUE]]
    /\ UNCHANGED <<currentRepo, currentRepoPath, disk, nextDir, remote, hist,
                   proc, reqs>>

ReadFileBegin(c, seq) == \E p \in RelPaths : ReadBegin(c, seq, "readFile", p)

FileExistsBegin(c, seq) == \E p \in RelPaths : ReadBegin(c, seq, "fileExists", p)

ListDirectoryBegin(c, seq) == \E p \in RelPaths : ReadBegin(c, seq, "listDirectory", p)

\* The outcome of the awaited access, as the catch block sees it.
IoRet(outcome) == [NoRet EXCEPT !.ok = (outcome = "ok"), !.err = outcome]

\* What the operating system answers for an access to fullPath: "ok" when
\* the path is of the kind wanted, "NotFound" when nothing is there, and an
\* error of any other kind at any time (also for a path of the wrong kind).
IoOutcomes(kind, wanted) ==
    (IF kind \in wanted THEN {"ok"} ELSE IF kind = "none" THEN {"NotFound"} ELSE {})
        \cup Reasons

\* The slip of letting the NotFound error through as it came.
ReadFileResultRaw(outcome, text, p) ==
    IF outcome = "ok" THEN [Value EXCEPT !.text = text]
    ELSE Failure("IOError", outcome)

\* try { return await Deno.readTextFile(fullPath) } catch ...
ReadFileResult(outcome, text, p) ==
    IF outcome = "ok" THEN [Value EXCEPT !.text = text]
    ELSE IF outcome = "NotFound" THEN [Failure("FileNotFound", NoError) EXCEPT !.rel = p]
    ELSE Failure("IOError", outcome)

\* The slip of a read that gives the handle up when the access fails.
ReadFileExecDropsHandle(c) ==
    /\ calls[c].pc = "io_wait"
    /\ calls[c].op = "readFile"
    /\ LET call == calls[c]
           kind == PathKind(disk, call.dest, call.arg)
       IN  \E outcome \in IoOutcomes(kind, {"file"}) :
             /\ calls' = [calls EXCEPT ![c] = Done([call EXCEPT !.ret = IoRet(outcome)],
                   ReadFileResult(outcome, Content(DirAt(disk, call.dest).tree, call.arg),
                                  call.arg))]
             /\ currentRepo' = IF outcome = "ok" THEN currentRepo ELSE NoRepo
             /\ currentRepoPath' = IF outcome = "ok" THEN currentRepoPath ELSE NoPath
    /\ UNCHANGED <<disk, nextDir, remote, hist, proc, reqs>>

ReadFileExec(c) ==
    /\ calls[c].pc = "io_wait"
    /\ calls[c].op = "readFile"
    /\ LET call == calls[c]
           kind == PathKind(disk, call.dest, call.arg)
       IN  \E outcome \in IoOutcomes(kind, {"file"}) :
             calls' = [calls EXCEPT ![c] = Done([call EXCEPT !.ret = IoRet(outcome)],
                 ReadFileResult(outcome, Content(DirAt(disk, call.dest).tree, call.arg),
                                call.arg))]
    /\ UNCHANGED <<currentRepo, currentRepoPath, disk, nextDir, remote, hist,
                   proc, reqs>>

\* The slip of swallowing only the NotFound error.
ExistsResultRethrow(outcome) ==
    IF outcome \in {"ok", "NotFound"} THEN [Value EXCEPT !.flag = (outcome = "ok")]
    ELSE Failure("IOError", outcome)

\* try { await Deno.stat(fullPath); return true } catch { return false }
ExistsResult(outcome) == [Value EXCEPT !.flag = (outcome = "ok")]

FileExistsExec(c) ==
    /\ calls[c].pc = "io_wait"
    /\ calls[c].op = "fileExists"
    /\ LET call == calls[c]
           kind == PathKind(disk, call.dest, call.arg)
       IN  \E outcome \in IoOutcomes(kind, {"file", "dir"}) :
             calls' = [calls EXCEPT ![c] =
                 Done([call EXCEPT !.ret = IoRet(outcome)], ExistsResult(outcome))]
    /\ UNCHANGED <<currentRepo, currentRepoPath, disk, nextDir, remote, hist,
                   proc, reqs>>

\* for await (const entry of Deno.readDir(fullPath)) entries.push(entry.name)
ListDirectoryResult(outcome, names, p) ==
    IF outcome = "ok" THEN [Value EXCEPT !.names = names]
    ELSE IF outcome = "NotFound"
    THEN [Failure("DirectoryNotFound", NoError) EXCEPT !.rel = p]
    ELSE Failure("IOError", outcome)

ListDirectoryExec(c) ==
    /\ calls[c].pc = "io_wait"
    /\ calls[c].op = "listDirectory"
    /\ LET call == calls[c]
           kind == PathKind(disk, call.dest, call.arg)
       IN  \E outcome \in IoOutcomes(kind, {"dir"}) :
             calls' = [calls EXCEPT ![c] = Done([call EXCEPT !.ret = IoRet(outcome)],
                 ListDirectoryResult(outcome,
                                     Entries(DirAt(disk, call.dest).tree, call.arg),
                                     call.arg))]
    /\ UNCHANGED <<currentRepo, currentRepoPath, disk, nextDir, remote, hist,
                   proc, reqs>>

\* ------------------------------------------------------------ environment

\* Upstream moves on.
RemoteAdvance ==
    /\ remote < MaxRemoteVer
    /\ remote' = remote + 1
    /\ UNCHANGED <<currentRepo, currentRepoPath, disk, nextDir, calls, hist,
                   proc, reqs>>

\* ------------------------------------------------------------------ main.ts

\* main's caller, the callers that handle requests, the callers that run
\* the shutdown listener (main's own slot is free once initialize returned).
Main == 1
Handlers == {2}
SignalProcs == {3, 1}

ToolNames == {"list_feps", "get_fep", "search_feps", "refresh_repository"}
ResourceNames == {"fep://index"}

\* The slugs asked for: one the index lists, one it does not.
Slugs == {"1b12", "ffff"}

Alive == proc.exit = NoExit

\* Deno.exit(code): the process ends, and with it every call in progress.
Exit(code) ==
    /\ proc' = [proc EXCEPT !.pc = "exited", !.exit = code]
    /\ calls' = [c \in Procs |->
                    IF Running(c) THEN [calls[c] EXCEPT !.pc = "exited"] ELSE calls[c]]

\* const repoPath = await initializeRepository(), the first thing main does.
MainStart ==
    /\ Alive
    /\ proc.pc = "start"
    /\ calls[Main].op = "none"
    /\ InitBegin(Main, FALSE)

\* The slip of building and connecting the server whatever initialize did.
MainInitResumeServesAnyway ==
    /\ Alive
    /\ proc.pc = "start"
    /\ calls[Main].op = "initialize" /\ calls[Main].pc = "done"
    /\ proc' = [proc EXCEPT !.pc = "connecting", !.server = TRUE,
                            !.tools = TRUE, !.resources = TRUE,
                            !.listeners = TRUE]
    /\ calls' = [calls EXCEPT ![Main] = NoCall]
    /\ UNCHANGED <<currentRepo, currentRepoPath, disk, nextDir, remote, hist, reqs>>

\* After the await: the catch block (Deno.exit(1)), or new McpServer,
\* registerTools, registerResources, new StdioServerTransport, the two
\* signal listeners, and server.connect(transport) is called.  main has
\* taken the result of its call (repoPath is only logged): its slot is free.
MainInitResume ==
    /\ Alive
    /\ proc.pc = "start"
    /\ calls[Main].op = "initialize" /\ calls[Main].pc = "done"
    /\ IF calls[Main].result.kind = "value"
       THEN /\ proc' = [proc EXCEPT !.pc = "connecting", !.server = TRUE,
                                    !.tools = TRUE, !.resources = TRUE,
                                    !.listeners = TRUE]
            /\ calls' = [calls EXCEPT ![Main] = NoCall]
       ELSE Exit(1)
    /\ UNCHANGED <<currentRepo, currentRepoPath, disk, nextDir, remote, hist, reqs>>

\* await server.connect(transport): the server starts reading requests, or
\* the promise rejects and main().catch calls Deno.exit(1).
MainConnect ==
    /\ Alive
    /\ proc.pc = "connecting"
    /\ \/ /\ proc' = [proc EXCEPT !.pc = "serving", !.connected = TRUE]
          /\ calls' = calls
       \/ Exit(1)
    /\ UNCHANGED <<currentRepo, currentRepoPath, disk, nextDir, remote, hist, reqs>>

\* A signal reaches a registered listener: shutdown is called.  The first
\* signal is handled in the highest slot, the next in the one below.
SignalArrives(c) ==
    /\ Alive
    /\ proc.listeners
    /\ c \in SignalProcs
    /\ reqs[c].kind = "none"
    /\ \A o \in SignalProcs : o > c => reqs[o].kind = "shutdown"
    /\ ~Running(c)
    /\ reqs' = [reqs EXCEPT ![c] = [NoReq EXCEPT !.kind = "shutdown", !.pc = "cleanup"]]
    /\ calls' = [calls EXCEPT ![c] = NoCall]
    /\ UNCHANGED <<currentRepo, currentRepoPath, disk, nextDir, remote, hist, proc>>

\* The slip of a shutdown that exits without cleaning up.
ShutdownCleanupSkipped(c) ==
    /\ Alive
    /\ reqs[c].kind = "shutdown" /\ reqs[c].pc = "cleanup"
    /\ calls[c].op = "none"
    /\ reqs' = [reqs EXCEPT ![c] = [reqs[c] EXCEPT !.pc = "done"]]
    /\ Exit(0)
    /\ UNCHANGED <<currentRepo, currentRepoPath, disk, nextDir, remote, hist>>

\* await cleanupRepository() in shutdown.
ShutdownCleanup(c) ==
    /\ Alive
    /\ reqs[c].kind = "shutdown" /\ reqs[c].pc = "cleanup"
    /\ calls[c].op = "none"
    /\ CleanupBegin(c, FALSE)

\* The rest of shutdown once the removal is over: cleanupOldRepo returns,
\* cleanupRepository clears the pair and returns, shutdown resumes and
\* calls Deno.exit(0).  Nothing is awaited on the way but the functions'
\* own returns: the continuations run one after the other off the job
\* queue, which is emptied before the completion of any other operation is
\* taken up.  When cleanupRepository found no path it has returned already.
ShutdownResume(c) ==
    /\ Alive
    /\ reqs[c].kind = "shutdown" /\ reqs[c].pc = "cleanup"
    /\ calls[c].op = "teardown"
    /\ calls[c].pc \in {"cleanup_rm_ret", "done"}
    /\ IF calls[c].pc = "cleanup_rm_ret"
       THEN /\ currentRepo' = NoRepo
            /\ currentRepoPath' = NoPath
            /\ hist' = Record("teardown", TRUE, NoPath, 0)
       ELSE UNCHANGED <<currentRepo, currentRepoPath, hist>>
    /\ calls' = [o \in Procs |->
                    IF o = c THEN Done(calls[c], Value)
                    ELSE IF Running(o) THEN [calls[o] EXCEPT !.pc = "exited"]
                    ELSE calls[o]]
    /\ reqs' = [reqs EXCEPT ![c] = [reqs[c] EXCEPT !.pc = "done"]]
    /\ proc' = [proc EXCEPT !.pc = "exited", !.exit = 0]
    /\ UNCHANGED <<disk, nextDir, remote>>

\* ------------------------------------------------- tools.ts, resources.ts

\* JSON.parse of the text of index.json: the slugs the index lists.  The
\* index lists the document from the first version on.
ParseIndex(text) == IF text[2] >= 1 THEN {"1b12"} ELSE {}

\* const docPath = `fep/${slug}/fep-${slug}.md`
DocPath(slug) ==
    IF slug = "1b12" THEN "fep/1b12/fep-1b12.md" ELSE "fep/ffff/fep-ffff.md"

\* throw new Error(`FEP not found: ${slug}`)
LookupError(slug) == [Failure("FepNotFound", NoError) EXCEPT !.rel = slug]

\* error.message, piece by piece.
Message(failure) == <<failure.err, failure.rel, failure.cause>>

\* The slip of a handler with no catch: the error goes to the protocol layer.
ToolCatchRethrows(failure) ==
    [kind |-> "thrown", isError |-> FALSE, text |-> Message(failure)]

\* catch (error) { return { content: [{ type: "text", text: `Error:
\* ${message}` }], isError: true } } in every tool handler.
ToolCatch(failure) ==
    [kind |-> "result", isError |-> TRUE, text |-> <<"Error: ">> \o Message(failure)]

\* return { content: [{ type: "text", text: ... }] }: no isError.
ToolResult(text) == [kind |-> "result", isError |-> FALSE, text |-> text]

\* catch (error) { throw new Error(`Failed to load FEP index: ${message}`) }
\* in the resource handler.
ResourceCatch(failure) ==
    [kind |-> "thrown", isError |-> FALSE,
     text |-> <<"Failed to load FEP index: ">> \o Message(failure)]

\* The catch block of the handler of kind.
Catch(kind, failure) ==
    IF kind \in ResourceNames THEN ResourceCatch(failure) ELSE ToolCatch(failure)

\* The handler returns or throws.
Finish(c, out) ==
    reqs' = [reqs EXCEPT ![c] = [reqs[c] EXCEPT !.pc = "done", !.out = out]]

\* A request reaches the connected server and its handler is called: the
\* refresh tool goes on to refreshRepository, the others to loadIndex.
RequestArrives(c) ==
    /\ Alive
    /\ proc.connected
    /\ c \in Handlers
    /\ reqs[c].pc \in {"idle", "done"}
    /\ \E kind \in ToolNames \cup ResourceNames, slug \in Slugs, hit \in BOOLEAN :
          /\ kind # "get_fep" => slug = "1b12"
          /\ kind # "search_feps" => ~hit
          /\ reqs' = [reqs EXCEPT ![c] =
                [NoReq EXCEPT !.kind = kind, !.slug = slug, !.hit = hit,
                    !.pc = IF kind = "refresh_repository" THEN "refresh" ELSE "index"]]
    /\ calls' = [calls EXCEPT ![c] = NoCall]
    /\ UNCHANGED <<currentRepo, currentRepoPath, disk, nextDir, remote, hist, proc>>

\* loadIndex: const content = await readFile("index.json")
ToolLoadIndex(c) ==
    /\ Alive
    /\ reqs[c].pc = "index"
    /\ calls[c].op = "none"
    /\ ReadBegin(c, FALSE, "readFile", "index.json")

\* After loadIndex: the catch block; or list_feps and the index resource
\* return the index, get_fep looks the slug up and reads its document,
\* search_feps reads the document of the entry.
ToolIndexResume(c) ==
    /\ Alive
    /\ reqs[c].pc = "index"
    /\ calls[c].op = "readFile" /\ calls[c].pc = "done"
    /\ LET req == reqs[c]
           res == calls[c].result
           index == ParseIndex(res.text)
           next == [req EXCEPT !.pc = "doc"]
       IN  IF res.kind = "error"
           THEN Finish(c, Catch(req.kind, res)) /\ calls' = calls
           ELSE CASE req.kind = "get_fep" ->
                     IF req.slug \in index
                     THEN /\ reqs' = [reqs EXCEPT ![c] = next]
                          /\ calls' = [calls EXCEPT ![c] = NoCall]
                     ELSE Finish(c, Catch(req.kind, LookupError(req.slug)))
                          /\ calls' = calls
                  [] req.kind = "search_feps" ->
                     IF index # {}
                     THEN /\ reqs' = [reqs EXCEPT ![c] =
                                [next EXCEPT !.slug = CHOOSE s \in index : TRUE]]
                          /\ calls' = [calls EXCEPT ![c] = NoCall]
                     ELSE Finish(c, ToolResult(<<"json", {}>>)) /\ calls' = calls
                  [] OTHER ->
                     Finish(c, ToolResult(<<"json", index>>)) /\ calls' = calls
    /\ UNCHANGED <<currentRepo, currentRepoPath, disk, nextDir, remote, hist, proc>>

\* const content = await readFile(docPath)
ToolReadDoc(c) ==
    /\ Alive
    /\ reqs[c].pc = "doc"
    /\ calls[c].op = "none"
    /\ ReadBegin(c, FALSE, "readFile", DocPath(reqs[c].slug))

\* search_feps: catch { /* Ignore if we can't read the content */ }, then
\* the entry is a result when the title or the authors matched.
SearchDocFailed(req, failure) ==
    ToolResult(<<"json", IF req.hit THEN {req.slug} ELSE {}, "no snippet">>)

\* After the document was read: get_fep returns it or goes to its catch
\* block; search_feps scores it, or ignores that it could not be read.
ToolDocResume(c) ==
    /\ Alive
    /\ reqs[c].pc = "doc"
    /\ calls[c].op = "readFile" /\ calls[c].pc = "done"
    /\ LET req == reqs[c]
           res == calls[c].result
       IN  IF req.kind = "get_fep"
           THEN IF res.kind = "error"
                THEN Finish(c, Catch(req.kind, res))
                ELSE Finish(c, ToolResult(<<"json", req.slug, res.text>>))
           ELSE IF res.kind = "error"
                THEN reqs' = [reqs EXCEPT ![c] =
                        [req EXCEPT !.pc = "done", !.swallowed = req.swallowed + 1,
                                    !.out = SearchDocFailed(req, res)]]
                ELSE Finish(c, ToolResult(
                        <<"json", IF req.hit THEN {req.slug} ELSE {},
                          IF req.hit THEN "snippet" ELSE "no snippet">>))
    /\ UNCHANGED <<currentRepo, currentRepoPath, disk, nextDir, remote, calls,
                   hist, proc>>

\* await refreshRepository() in the refresh_repository tool.
ToolRefresh(c) ==
    /\ Alive
    /\ reqs[c].pc = "refresh"
    /\ calls[c].op = "none"
    /\ RefreshBegin(c, FALSE)

\* After refreshRepository: the success text, or the catch block.
ToolRefreshResume(c) ==
    /\ Alive
    /\ reqs[c].pc = "refresh"
    /\ calls[c].op = "refresh" /\ calls[c].pc = "done"
    /\ IF calls[c].result.kind = "error"
       THEN Finish(c, Catch(reqs[c].kind, calls[c].result))
       ELSE Finish(c, ToolResult(<<"FEP repository refreshed successfully.">>))
    /\ UNCHANGED <<currentRepo, currentRepoPath, disk, nextDir, remote, calls,
                   hist, proc>>

\* ----------------------------------------------------------- specification

\* One step of caller c's call; seq: a call starts only when none is running.
LifeStep(c, seq) ==
    \/ InitBegin(c, seq)
    \/ RemoveExec(c)
    \/ InitRmResume(c)
    \/ MkTempExec(c)
    \/ InitMkResume(c)
    \/ CloneExec(c)
    \/ CloneResume(c)
    \/ DelayResume(c)
    \/ RetryRmResume(c)
    \/ RefreshBegin(c, seq)
    \/ FetchExec(c)
    \/ RefreshFetchResume(c)
    \/ OpenExec(c)
    \/ RefreshOpenResume(c)
    \/ CleanupBegin(c, seq)
    \/ CleanupResume(c)

ReadStep(c, seq) ==
    \/ ReadFileBegin(c, seq)
    \/ ReadFileExec(c)
    \/ FileExistsBegin(c, seq)
    \/ FileExistsExec(c)
    \/ ListDirectoryBegin(c, seq)
    \/ ListDirectoryExec(c)

Step(c, seq) == LifeStep(c, seq) \/ ReadStep(c, seq)

\* Non-overlapping calls: one caller, one call at a time.
Next == (\E c \in SeqProcs : Step(c, TRUE)) \/ RemoteAdvance

Spec == Init /\ [][Next]_vars

\* The awaited operations when nothing goes wrong: the removal removes (or
\* finds nothing), the clone, the fetch and the reopen succeed.
RemoveOk(c) == RemoveExec(c) /\ calls'[c].rmFailed = {}

CloneOk(c) == CloneExec(c) /\ calls'[c].ret.ok

FetchOk(c) == FetchExec(c) /\ calls'[c].ret.ok

OpenOk(c) == OpenExec(c) /\ calls'[c].ret.ok

\* Non-overlapping calls in a run where every Deno.remove succeeds (or finds
\* nothing to remove): no removal is logged as failed.
NextRemovalsSucceed ==
    \/ \E c \in SeqProcs :
          \/ InitBegin(c, TRUE)
          \/ RemoveOk(c)
          \/ InitRmResume(c)
          \/ MkTempExec(c)
          \/ InitMkResume(c)
          \/ CloneExec(c)
          \/ CloneResume(c)
          \/ DelayResume(c)
          \/ RetryRmResume(c)
          \/ RefreshBegin(c, TRUE)
          \/ FetchExec(c)
          \/ RefreshFetchResume(c)
          \/ OpenExec(c)
          \/ RefreshOpenResume(c)
          \/ CleanupBegin(c, TRUE)
          \/ CleanupResume(c)
          \/ ReadStep(c, TRUE)
    \/ RemoteAdvance

SpecRemovalsSucceed == Init /\ [][NextRemovalsSucceed]_vars

\* A lifecycle call (initialize, refresh, teardown) is between call and
\* return.
LifecycleRunning ==
    \E c \in Procs :
        Running(c) /\ calls[c].op \in {"initialize", "refresh", "teardown"}

\* A read may start on a stable handle: no lifecycle call is in progress.
StableReadBegin(c) ==
    /\ ~LifecycleRunning
    /\ \/ ReadFileBegin(c, FALSE)
       \/ FileExistsBegin(c, FALSE)
       \/ ListDirectoryBegin(c, FALSE)

\* Reads on a stable handle: the first caller's lifecycle calls overlap
\* nothing and meet no failure of the network or the disk; between them the
\* first two callers read, and their reads overlap each other.
NextReaders ==
    \/ InitBegin(1, TRUE)
    \/ RemoveOk(1)
    \/ InitRmResume(1)
    \/ MkTempExec(1)
    \/ InitMkResume(1)
    \/ CloneOk(1)
    \/ CloneResume(1)
    \/ RefreshBegin(1, TRUE)
    \/ FetchOk(1)
    \/ RefreshFetchResume(1)
    \/ OpenOk(1)
    \/ RefreshOpenResume(1)
    \/ CleanupBegin(1, TRUE)
    \/ CleanupResume(1)
    \/ \E c \in {1, 2} :
          \/ StableReadBegin(c)
          \/ ReadFileExec(c)
          \/ FileExistsExec(c)
          \/ ListDirectoryExec(c)
    \/ RemoteAdvance

SpecReaders == Init /\ [][NextReaders]_vars

\* readFile("index.json"), the file every version of upstream has.
ReadIndexBegin(c) == ReadFileBegin(c, FALSE) /\ calls'[c].arg = "index.json"

\* Reads overlapping the lifecycle: the first caller initializes again and
\* again, the two readers call readFile("index.json") at any time.
NextOverlap ==
    \/ InitBegin(1, FALSE)
    \/ RemoveExec(1)
    \/ InitRmResume(1)
    \/ MkTempExec(1)
    \/ InitMkResume(1)
    \/ CloneExec(1)
    \/ CloneResume(1)
    \/ DelayResume(1)
    \/ RetryRmResume(1)
    \/ \E c \in Readers : ReadIndexBegin(c) \/ ReadFileExec(c)

SpecOverlap == Init /\ [][NextOverlap]_vars

\* One kind of failure of the network, and a failed clone that leaves the
\* directory as it found it.
OneReason(c) == calls'[c].ret.err # "connection reset"

CloneLean(c) ==
    CloneExec(c) /\ OneReason(c) /\ disk'[calls[c].dest].kind # "partial"

FetchLean(c) == FetchExec(c) /\ OneReason(c)

OpenLean(c) == OpenExec(c) /\ OneReason(c)

\* Lifecycle calls overlapping at their awaits: two callers call initialize,
\* refresh and teardown at any time; every removal succeeds.
NextLifecycleOverlap ==
    \E c \in {1, 2} :
        \/ InitBegin(c, FALSE)
        \/ RemoveOk(c)
        \/ InitRmResume(c)
        \/ MkTempExec(c)
        \/ InitMkResume(c)
        \/ CloneLean(c)
        \/ CloneResume(c)
        \/ DelayResume(c)
        \/ RetryRmResume(c)
        \/ RefreshBegin(c, FALSE)
        \/ FetchLean(c)
        \/ RefreshFetchResume(c)
        \/ OpenLean(c)
        \/ RefreshOpenResume(c)
        \/ CleanupBegin(c, FALSE)
        \/ CleanupResume(c)

SpecLifecycleOverlap == Init /\ [][NextLifecycleOverlap]_vars

\* Upstream moves on while the server runs.
UpstreamMoves == Alive /\ RemoteAdvance

\* The server process: main initializes and connects; then requests are
\* handled one at a time by the second caller while signals call shutdown
\* (up to two, the second handled in main's slot), until the process exits.
NextServer ==
    \/ MainStart
    \/ MkTempExec(Main)
    \/ InitMkResume(Main)
    \/ CloneExec(Main)
    \/ CloneResume(Main)
    \/ DelayResume(Main)
    \/ RetryRmResume(Main)
    \/ MainInitResume
    \/ MainConnect
    \/ \E c \in Handlers :
          \/ RequestArrives(c)
          \/ ToolLoadIndex(c)
          \/ ToolIndexResume(c)
          \/ ToolReadDoc(c)
          \/ ToolDocResume(c)
          \/ ToolRefresh(c)
          \/ ToolRefreshResume(c)
          \/ ReadFileExec(c)
          \/ FetchExec(c)
          \/ RefreshFetchResume(c)
          \/ OpenExec(c)
          \/ RefreshOpenResume(c)
    \/ \E c \in SignalProcs :
          \/ SignalArrives(c)
          \/ ShutdownCleanup(c)
          \/ RemoveExec(c)
          \/ ShutdownResume(c)
    \/ UpstreamMoves

SpecServer == Init /\ [][NextServer]_vars

\* ------------------------------------------------------------------ claims

\* The initialize calls that have returned, and how.
InitDone(c) == calls[c].op = "initialize" /\ calls[c].pc = "done"

InitFailed(c) == InitDone(c) /\ calls[c].result.kind = "error"

InitSucceeded(c) == InitDone(c) /\ calls[c].result.kind = "value"

\* C1: under non-overlapping initialize, refresh and teardown calls,
\* whenever no call is in progress currentRepoPath is null if and only if
\* currentRepo is null.
C1_PathAndRepoTogether ==
    NoneRunning => ((currentRepoPath = NoPath) <=> (currentRepo = NoRepo))

\* A teardown of a handle that a refresh had reopened has returned.
C1_Witness ==
    \E c \in Procs :
        /\ calls[c].op = "teardown" /\ calls[c].pc = "done"
        /\ calls[c].prev.op = "refresh" /\ calls[c].prev.ok
        /\ calls[c].seenPath # NoPath
        /\ currentRepoPath = NoPath

\* C2: when all 3 clone attempts of an initialize call fail, the temporary
\* directory allocated for that call is gone when the call has returned.
C2_NoDirectoryLeftBehind ==
    \A c \in Procs :
        InitFailed(c) => DirAt(disk, calls[c].dest).kind = "absent"

\* C3: when all 3 clone attempts fail, initialize raises CloneFailed with
\* the attempt count 3 and the reason of the third attempt, and the handle
\* is UNINITIALIZED when the call returns.
C3_CloneFailedCarriesLastReason ==
    \A c \in Procs :
        (InitDone(c) /\ Len(calls[c].errs) = 3) =>
            /\ calls[c].result.kind = "error"
            /\ calls[c].result.err = "CloneFailed"
            /\ calls[c].result.attempts = 3
            /\ calls[c].result.cause = calls[c].errs[3]
            /\ (NoneRunning => currentRepoPath = NoPath /\ currentRepo = NoRepo)

\* A re-initialize of a READY handle failed three times, the third time for
\* another reason than the first two.
C3_Witness ==
    \E c \in Procs :
        /\ InitFailed(c)
        /\ calls[c].seenPath # NoPath
        /\ calls[c].errs[1] = calls[c].errs[2]
        /\ calls[c].errs[3] # calls[c].errs[1]

\* How far an initialize call is from returning: each step of the call
\* lowers it, and it is 0 exactly when the call has returned.
InitMeasure(call) ==
    IF call.pc = "done" THEN 0
    ELSE (3 - call.attempt) * 5 +
         CASE call.pc \in {"clone_wait"} -> 5
           [] call.pc \in {"clone_ret", "init_rm_wait"} -> 4
           [] call.pc \in {"delay_wait", "init_rm_ret"} -> 3
           [] call.pc \in {"retry_rm_wait", "init_mk_wait"} -> 2
           [] OTHER -> 1

\* The backoff slept through after k failed attempts.
C4_Backoff(k) == CASE k = 0 -> 0 [] k = 1 -> 1000 [] OTHER -> 3000

C4_Attempts ==
    \A c \in Procs :
        calls[c].op = "initialize" =>
            /\ calls[c].attempt <= 3
            /\ Len(calls[c].errs) <= 3
            /\ calls[c].pc = "delay_wait" =>
                  \/ Len(calls[c].errs) = 1 /\ calls[c].delayMs = 1000
                  \/ Len(calls[c].errs) = 2 /\ calls[c].delayMs = 2000
            /\ calls[c].pc \in {"retry_rm_wait", "retry_rm_ret", "clone_wait", "clone_ret"} =>
                  calls[c].waited = C4_Backoff(calls[c].attempt -
                        (IF calls[c].pc \in {"clone_wait", "clone_ret"} THEN 1 ELSE 0))
            /\ InitSucceeded(c) =>
                  /\ calls[c].attempt = Len(calls[c].errs) + 1
                  /\ calls[c].waited = C4_Backoff(Len(calls[c].errs))
                  /\ calls[c].result.path \in Dirs
            /\ InitFailed(c) =>
                  /\ Len(calls[c].errs) = 3 /\ calls[c].attempt = 3
                  /\ calls[c].waited = 3000
                  /\ calls[c].result.err = "CloneFailed"
            /\ Running(c) => ENABLED Step(c, TRUE)

C4_Decreases ==
    \A c \in Procs :
        (calls[c].op = "initialize" /\ Running(c) /\ calls'[c] # calls[c]) =>
            InitMeasure(calls'[c]) < InitMeasure(calls[c])

C5_Order ==
    \A c \in Procs :
        (calls[c].op = "initialize" /\ calls'[c] # calls[c]) =>
            /\ (calls[c].pc = "clone_ret" /\ ~calls[c].ret.ok /\ calls[c].attempt < 3) =>
                  calls'[c].pc = "delay_wait" /\ disk' = disk
            /\ calls[c].pc = "delay_wait" =>
                  /\ calls'[c].pc = "retry_rm_wait"
                  /\ calls'[c].waited = calls[c].waited + calls[c].delayMs
                  /\ disk' = disk
            /\ calls[c].pc = "retry_rm_wait" =>
                  /\ calls'[c].pc = "retry_rm_ret"
                  /\ \A d \in Dirs \ {calls[c].dest} : disk'[d] = disk[d]
            /\ calls[c].pc = "retry_rm_ret" =>
                  /\ calls'[c].pc = "clone_wait"
                  /\ calls'[c].attempt = calls[c].attempt + 1
            /\ calls[c].pc \in {"clone_wait", "clone_ret", "delay_wait",
                                "retry_rm_wait", "retry_rm_ret"} =>
                  calls'[c].dest = calls[c].dest

C5_ThirdAttemptSucceeds ==
    \A c \in Procs :
        (InitSucceeded(c) /\ Len(calls[c].errs) = 2 /\ NoneRunning) =>
            /\ currentRepoPath = calls[c].result.path
            /\ currentRepoPath = calls[c].dest
            /\ currentRepo.open /\ currentRepo.path = currentRepoPath
            /\ disk[currentRepoPath] = CloneDir(currentRepo.refs)

\* C5: after a failed attempt n < 3 the steps are wait, delete the partial
\* directory, retry into the same destination; a call that fails twice and
\* then succeeds ends READY at the path it returns, and that directory
\* holds the fresh clone and nothing of the failed attempts.
C5_RetryIntoSamePath == []C5_ThirdAttemptSucceeds /\ [][C5_Order]_vars

\* An initialize failed twice, slept 3000 ms, removed its directory after
\* each failure without a warning and succeeded at the third attempt.
C5_Witness ==
    \E c \in Procs :
        /\ InitSucceeded(c) /\ Len(calls[c].errs) = 2
        /\ calls[c].waited = 3000
        /\ currentRepoPath = calls[c].dest
        /\ calls[c].rmFailed = {}

\* The second of two successful initialize calls in succession.
SecondInit(c) ==
    InitSucceeded(c) /\ calls[c].prev.op = "initialize" /\ calls[c].prev.ok

\* C6 as stated: two successful initialize calls in succession return two
\* distinct paths, and after the second the first path is gone from the
\* disk and the handle references the second.
C6_FirstCopyGone ==
    \A c \in Procs :
        (SecondInit(c) /\ NoneRunning) =>
            /\ calls[c].result.path # calls[c].prev.path
            /\ disk[calls[c].prev.path].kind = "absent"
            /\ currentRepoPath = calls[c].result.path

\* C6 as amended: the first path is gone unless its removal failed (which
\* cleanupOldRepo only logs).
C6_FirstCopyGoneUnlessRemovalFailed ==
    \A c \in Procs :
        (SecondInit(c) /\ NoneRunning) =>
            /\ calls[c].result.path # calls[c].prev.path
            /\ calls[c].prev.path \notin calls[c].rmFailed =>
                  disk[calls[c].prev.path].kind = "absent"
            /\ currentRepoPath = calls[c].result.path
            /\ currentRepo.path = calls[c].result.path

\* The second initialize removed the first copy and returned another path.
C6_Witness ==
    \E c \in Procs :
        /\ SecondInit(c)
        /\ calls[c].rmFailed = {}
        /\ disk[calls[c].prev.path].kind = "absent"
        /\ disk[calls[c].result.path].kind = "clone"

\* A refresh of a READY handle has failed.
RefreshFailed(c) ==
    /\ calls[c].op = "refresh" /\ calls[c].pc = "done"
    /\ calls[c].result.kind = "error"
    /\ calls[c].seenPath # NoPath

C7_HandleAsBefore ==
    \A c \in Procs :
        (RefreshFailed(c) /\ NoneRunning) =>
            /\ calls[c].result.err = "FetchFailed"
            /\ calls[c].result.cause \in Reasons
            /\ calls[c].result.cause = calls[c].ret.err
            /\ currentRepoPath = calls[c].seenPath
            /\ currentRepo.open /\ currentRepo.path = calls[c].seenPath
            /\ disk[calls[c].seenPath].kind = "clone"

\* No step of a refresh moves the path, removes a directory or changes a
\* checked-out tree, and only the step that returns normally replaces the
\* repository object.
C7_Frame ==
    \A c \in Procs :
        (calls'[c].op = "refresh" /\ calls'[c] # calls[c]) =>
            /\ currentRepoPath' = currentRepoPath
            /\ \A d \in Dirs : disk'[d].kind = disk[d].kind /\ disk'[d].tree = disk[d].tree
            /\ currentRepo' # currentRepo => calls'[c].result.kind = "value"

\* A readFile issued after the failed refresh finds what is checked out.
C7_ReadAfterwards ==
    \A c \in Procs :
        ( /\ calls[c].op = "readFile" /\ calls[c].pc = "done"
          /\ calls[c].prev.op = "refresh" /\ ~calls[c].prev.ok
          /\ calls[c].prev.path # NoPath
          /\ PathKind(disk, calls[c].prev.path, calls[c].arg) = "file"
          /\ calls[c].ret.err \notin Reasons ) =>
            /\ calls[c].result.kind = "value"
            /\ calls[c].result.text =
                  Content(disk[calls[c].prev.path].tree, calls[c].arg)

\* C7: a refresh of a READY handle that fails (in the fetch or in the
\* reopen) raises FetchFailed wrapping the cause and leaves the path and
\* the prior repository object in place; no directory is deleted and no
\* checked-out file changes, so a readFile of a file that was there still
\* returns its content.
C7_FailedRefreshLeavesHandle ==
    []C7_HandleAsBefore /\ []C7_ReadAfterwards /\ [][C7_Frame]_vars

\* The fetch brought in a newer upstream version and the reopen failed.
C7_Witness ==
    \E c \in Procs :
        /\ RefreshFailed(c)
        /\ calls[c].fetched > disk[calls[c].seenPath].tree
        /\ currentRepo.refs < calls[c].fetched

\* C8: a readFile issued after a successful refresh returns the content
\* upstream had when the refresh fetched, also when upstream advanced after
\* the initial clone.
C8_ReadsLatestAfterRefresh ==
    \A c \in Procs :
        ( /\ calls[c].op = "readFile" /\ calls[c].pc = "done"
          /\ calls[c].prev.op = "refresh" /\ calls[c].prev.ok
          /\ TreeKind(calls[c].prev.ver, calls[c].arg) = "file"
          /\ calls[c].ret.err \notin Reasons ) =>
            /\ calls[c].result.kind = "value"
            /\ calls[c].result.text = Content(calls[c].prev.ver, calls[c].arg)

\* C9: whenever the handle is UNINITIALIZED, readFile and listDirectory
\* fail with NotInitialized for every relative path, without dispatching
\* any file-system operation.
C9_NotInitialized ==
    \A c \in Procs :
        (calls[c].op \in {"readFile", "listDirectory"} /\ calls[c].seenPath = NoPath) =>
            /\ calls[c].pc = "done"
            /\ calls[c].result.kind = "error"
            /\ calls[c].result.err = "NotInitialized"
            /\ ~calls[c].io
            /\ calls[c].dest = NoPath

\* A listDirectory after the only initialize so far had failed.
C9_Witness ==
    \E c \in Procs :
        /\ calls[c].op = "listDirectory" /\ calls[c].pc = "done"
        /\ calls[c].prev.op = "initialize" /\ ~calls[c].prev.ok
        /\ calls[c].result.err = "NotInitialized"
        /\ currentRepo = NoRepo

\* C10: fileExists never raises: it returns false when the handle is
\* UNINITIALIZED, false for a path that does not exist or whose stat fails
\* with any I/O error, and true only when the handle is READY and the path
\* exists under the current working copy.
C10_FileExistsNeverRaises ==
    \A c \in Procs :
        (calls[c].op = "fileExists" /\ calls[c].pc = "done") =>
            /\ calls[c].result.kind = "value"
            /\ calls[c].seenPath = NoPath => ~calls[c].result.flag /\ ~calls[c].io
            /\ PathKind(disk, calls[c].seenPath, calls[c].arg) = "none" =>
                  ~calls[c].result.flag
            /\ calls[c].ret.err \in Reasons => ~calls[c].result.flag
            /\ (calls[c].result.flag /\ NoneRunning) =>
                  /\ currentRepoPath # NoPath /\ currentRepo # NoRepo
                  /\ currentRepoPath = calls[c].seenPath
                  /\ PathKind(disk, currentRepoPath, calls[c].arg) # "none"

\* The stat of a path that exists in the working copy failed with an I/O
\* error, and fileExists answered false.
C10_Witness ==
    \E c \in Procs :
        /\ calls[c].op = "fileExists" /\ calls[c].pc = "done"
        /\ calls[c].ret.err \in Reasons
        /\ PathKind(disk, currentRepoPath, calls[c].arg) = "dir"
        /\ ~calls[c].result.flag

\* A teardown has returned or thrown.
TeardownDone(c) == calls[c].op = "teardown" /\ calls[c].pc = "done"

\* C11 as stated: teardown on a READY handle deletes the working copy and
\* leaves the handle UNINITIALIZED; on an UNINITIALIZED handle it does not
\* raise, deletes nothing and leaves the handle UNINITIALIZED.
C11_TeardownDeletes ==
    \A c \in Procs :
        (TeardownDone(c) /\ NoneRunning) =>
            /\ calls[c].result = Value
            /\ currentRepo = NoRepo /\ currentRepoPath = NoPath
            /\ calls[c].seenPath # NoPath => disk[calls[c].seenPath].kind = "absent"
            /\ calls[c].seenPath = NoPath => ~calls[c].io

\* The state part of C11 as amended: the working copy is gone unless its
\* removal failed.
C11_Returned ==
    \A c \in Procs :
        (TeardownDone(c) /\ NoneRunning) =>
            /\ calls[c].result = Value
            /\ currentRepo = NoRepo /\ currentRepoPath = NoPath
            /\ (calls[c].seenPath # NoPath /\ calls[c].seenPath \notin calls[c].rmFailed) =>
                  disk[calls[c].seenPath].kind = "absent"
            /\ calls[c].seenPath = NoPath => ~calls[c].io /\ calls[c].rmFailed = {}

\* A teardown of an UNINITIALIZED handle is a single step that returns and
\* changes neither the handle, nor the disk, nor anything else.
C11_NoOp ==
    \A c \in Procs :
        (/\ calls'[c] # calls[c]
         /\ calls'[c].op = "teardown"
         /\ calls'[c].seenPath = NoPath) =>
            /\ calls'[c].pc = "done"
            /\ calls'[c].result = Value
            /\ UNCHANGED <<currentRepo, currentRepoPath, disk, nextDir, remote>>

\* C11 as amended: teardown is idempotent: on a READY handle it removes the
\* working copy unless the removal fails (which is only logged) and leaves
\* the handle UNINITIALIZED; on an UNINITIALIZED handle it returns without
\* raising and changes nothing, so a second teardown adds nothing to the
\* first.
C11_TeardownIdempotent == []C11_Returned /\ [][C11_NoOp]_vars

\* A teardown right after a teardown, the working copy removed by the
\* first: the second found the handle UNINITIALIZED and returned.
C11_Witness ==
    \E c \in Procs :
        /\ TeardownDone(c)
        /\ calls[c].prev.op = "teardown" /\ calls[c].prev.ok
        /\ calls[c].seenPath = NoPath
        /\ calls[c].result = Value
        /\ nextDir >= 1
        /\ \A d \in Dirs : disk[d].kind = "absent"

\* The two states of the handle a caller can see.
Uninit == currentRepo = NoRepo /\ currentRepoPath = NoPath

Ready ==
    /\ currentRepoPath # NoPath
    /\ currentRepo.open
    /\ currentRepo.path = currentRepoPath

LifecycleDone(c, op) == calls[c].op = op /\ calls[c].pc = "done"

\* Between calls the handle is UNINITIALIZED or READY, and the last call
\* made the transition the state machine gives for it; seenPath tells the
\* state the call started from.
C12_Completed ==
    /\ NoneRunning => Uninit \/ Ready
    /\ \A c \in Procs :
          NoneRunning =>
              /\ InitSucceeded(c) => Ready /\ currentRepoPath = calls[c].result.path
              /\ InitFailed(c) => Uninit
              /\ (LifecycleDone(c, "refresh") /\ calls[c].seenPath # NoPath) =>
                    Ready /\ currentRepoPath = calls[c].seenPath
              /\ (LifecycleDone(c, "refresh") /\ calls[c].seenPath = NoPath) =>
                    Uninit /\ calls[c].result.kind = "error"
              /\ LifecycleDone(c, "teardown") => Uninit

\* No other transition: the pair changes only in a step of an initialize,
\* a refresh or a teardown, and a refresh never replaces the path (so it
\* never takes UNINITIALIZED to READY).
C12_Steps ==
    (currentRepo' # currentRepo \/ currentRepoPath' # currentRepoPath) =>
        \E c \in Procs :
            /\ calls'[c] # calls[c]
            /\ calls'[c].op \in {"initialize", "refresh", "teardown"}
            /\ calls'[c].op = "refresh" =>
                  /\ currentRepoPath' = currentRepoPath
                  /\ currentRepoPath # NoPath

\* C12: under non-overlapping calls the handle's caller-visible state is
\* always UNINITIALIZED or READY and every completed call makes one of the
\* specified transitions: initialize success to READY, initialize failure
\* to UNINITIALIZED, refresh from READY stays READY, teardown to
\* UNINITIALIZED; nothing else changes the state.
C12_StateMachine == []C12_Completed /\ [][C12_Steps]_vars

\* A teardown of a READY handle, called after a successful refresh, has
\* returned and left the handle UNINITIALIZED.
C12_Witness ==
    \E c \in Procs :
        /\ LifecycleDone(c, "teardown")
        /\ calls[c].seenPath # NoPath
        /\ calls[c].prev.op = "refresh" /\ calls[c].prev.ok
        /\ Uninit

\* An initialize called on a READY handle has failed on every attempt.
ReinitFailed(c) == InitFailed(c) /\ calls[c].seenPath # NoPath

\* C13 as stated: a re-initialize on a READY handle that fails on all clone
\* attempts leaves the handle UNINITIALIZED with the previous working copy
\* deleted.
C13_PreviousCopyDeleted ==
    \A c \in Procs :
        (ReinitFailed(c) /\ NoneRunning) =>
            /\ Uninit
            /\ disk[calls[c].seenPath].kind = "absent"

\* After the failed re-initialize the handle is UNINITIALIZED, and the
\* previous copy is gone unless its removal failed; a readFile, listDirectory
\* or refresh that finds the handle UNINITIALIZED fails with NotInitialized.
C13_AfterFailure ==
    \A c \in Procs :
        /\ (ReinitFailed(c) /\ NoneRunning) =>
              /\ Uninit
              /\ calls[c].attempt = MAX_RETRIES
              /\ calls[c].seenPath \notin calls[c].rmFailed =>
                    disk[calls[c].seenPath].kind = "absent"
        /\ (/\ calls[c].op \in {"readFile", "listDirectory", "refresh"}
            /\ calls[c].prev.op = "initialize" /\ ~calls[c].prev.ok) =>
              /\ calls[c].pc = "done"
              /\ calls[c].result = NotInitialized

\* The handle stays UNINITIALIZED until an initialize succeeds.
C13_UntilInitialize ==
    (currentRepoPath = NoPath /\ currentRepoPath' # NoPath) =>
        \E c \in Procs :
            /\ calls[c].op = "initialize" /\ calls[c].pc = "clone_ret"
            /\ calls'[c].pc = "done" /\ calls'[c].result.kind = "value"

\* C13 as amended: a re-initialize on a READY handle that fails on all
\* clone attempts leaves the handle UNINITIALIZED, the previous working copy
\* removed unless its removal failed (the prior handle is not retained);
\* readFile, listDirectory and refresh then fail with NotInitialized until a
\* later initialize succeeds.
C13_FailedReinitialize == []C13_AfterFailure /\ [][C13_UntilInitialize]_vars

\* A re-initialize of a READY handle failed three times: the handle is
\* UNINITIALIZED and the previous working copy is gone.
C13_Witness ==
    \E c \in Procs :
        /\ ReinitFailed(c)
        /\ Len(calls[c].errs) = MAX_RETRIES
        /\ Uninit
        /\ disk[calls[c].seenPath].kind = "absent"

\* C14: refresh called on an UNINITIALIZED handle fails with NotInitialized
\* itself, not wrapped as FetchFailed, dispatches neither the fetch nor the
\* reopen, and leaves the handle UNINITIALIZED.
C14_RefreshUninitialized ==
    \A c \in Procs :
        (calls[c].op = "refresh" /\ calls[c].seenPath = NoPath) =>
            /\ calls[c].pc = "done"
            /\ calls[c].result = NotInitialized
            /\ calls[c].result.err # FetchError(NoError).err
            /\ ~calls[c].io
            /\ calls[c].fetched = 0 /\ calls[c].ret = NoRet
            /\ NoneRunning => Uninit

\* A refresh after a teardown failed with NotInitialized.
C14_Witness ==
    \E c \in Procs :
        /\ LifecycleDone(c, "refresh")
        /\ calls[c].prev.op = "teardown"
        /\ calls[c].seenPath = NoPath
        /\ calls[c].result.err = "NotInitialized"
        /\ Uninit

\* A read operation called on a READY handle has returned or thrown.
ReadDone(c, op) ==
    calls[c].op = op /\ calls[c].pc = "done" /\ calls[c].seenPath # NoPath

\* C15: on a READY handle readFile(p) returns exactly the content stored at
\* p in the working copy the handle references now, never that of another
\* copy; for a p that is not there it fails with FileNotFound carrying p
\* (any other I/O failure is passed on as it is); listDirectory of a
\* directory that is not there fails with DirectoryNotFound carrying the
\* relative path.
C15_ReadsCurrentCopy ==
    \A c \in Procs :
        LET call == calls[c]
            kind == PathKind(disk, currentRepoPath, call.arg)
        IN  /\ ReadDone(c, "readFile") =>
                  /\ currentRepoPath = call.seenPath /\ call.dest = currentRepoPath
                  /\ call.result.kind = "value" =>
                        /\ kind = "file"
                        /\ call.result.text = Content(disk[currentRepoPath].tree, call.arg)
                  /\ (kind = "file" /\ call.ret.err \notin Reasons) =>
                        call.result.kind = "value"
                  /\ (kind = "none" /\ call.ret.err \notin Reasons) =>
                        /\ call.result.kind = "error"
                        /\ call.result.err = "FileNotFound"
                        /\ call.result.rel = call.arg
                  /\ call.result.err = "FileNotFound" => kind = "none"
            /\ ReadDone(c, "listDirectory") =>
                  /\ currentRepoPath = call.seenPath /\ call.dest = currentRepoPath
                  /\ call.result.kind = "value" =>
                        /\ kind = "dir"
                        /\ call.result.names = Entries(disk[currentRepoPath].tree, call.arg)
                  /\ (kind = "none" /\ call.ret.err \notin Reasons) =>
                        /\ call.result.kind = "error"
                        /\ call.result.err = "DirectoryNotFound"
                        /\ call.result.rel = call.arg
                  /\ call.result.err = "DirectoryNotFound" => kind = "none"

\* The replaced working copy is still on disk (its removal failed) with
\* other content, and readFile returned the content of the current one.
C15_Witness ==
    \E c \in Procs, d \in Dirs :
        /\ ReadDone(c, "readFile")
        /\ d # currentRepoPath
        /\ disk[d].kind = "clone"
        /\ disk[d].tree # disk[currentRepoPath].tree
        /\ PathKind(disk, d, calls[c].arg) = "file"
        /\ calls[c].result.kind = "value"
        /\ calls[c].result.text = Content(disk[currentRepoPath].tree, calls[c].arg)

\* The directories made by the mirror that are still on disk.
OnDisk == {d \in Dirs : disk[d].kind # "absent"}

\* C16: after any sequence of non-overlapping initialize, refresh and
\* teardown calls in which every directory deletion succeeds, the
\* directories of the mirror still on disk are exactly the handle's path
\* when the handle is READY and none when it is UNINITIALIZED.
C16_ExactlyOneCopy ==
    NoneRunning =>
        OnDisk = IF currentRepoPath = NoPath THEN {} ELSE {currentRepoPath}

\* A refresh of a READY handle has returned normally.
RefreshSucceeded(c) == LifecycleDone(c, "refresh") /\ calls[c].result.kind = "value"

\* After the successful refresh the handle is READY on the path it had,
\* the repository object reopened there with the refs the fetch brought.
C17_Reopened ==
    \A c \in Procs :
        (RefreshSucceeded(c) /\ NoneRunning) =>
            /\ calls[c].seenPath # NoPath
            /\ currentRepoPath = calls[c].seenPath
            /\ currentRepo = [open |-> TRUE, path |-> currentRepoPath,
                              refs |-> calls[c].fetched]
            /\ disk[currentRepoPath].kind = "clone"
            /\ disk[currentRepoPath].refs = calls[c].fetched

\* No step of a refresh changes the path, makes or removes a directory, or
\* touches a checked-out tree; on disk only the remote-tracking refs of the
\* handle's working copy may move.
C17_Frame ==
    \A c \in Procs :
        (calls'[c].op = "refresh" /\ calls'[c] # calls[c]) =>
            /\ currentRepoPath' = currentRepoPath
            /\ nextDir' = nextDir
            /\ \A d \in Dirs :
                  /\ disk'[d].kind = disk[d].kind
                  /\ disk'[d].tree = disk[d].tree
                  /\ d # currentRepoPath => disk'[d] = disk[d]

\* A readFile after the successful refresh returns what is checked out,
\* which the refresh has not changed, whatever version was fetched.
C17_ReadAfterwards ==
    \A c \in Procs :
        ( /\ calls[c].op = "readFile" /\ calls[c].pc = "done"
          /\ calls[c].prev.op = "refresh" /\ calls[c].prev.ok
          /\ calls[c].result.kind = "value" ) =>
            /\ calls[c].dest = calls[c].prev.path
            /\ calls[c].result.text = Content(disk[calls[c].dest].tree, calls[c].arg)
            /\ disk[calls[c].dest].tree <= calls[c].prev.ver

ReadOps == {"readFile", "fileExists", "listDirectory"}

\* What op(p) gives when run on its own in the present state, the access
\* to the disk ending with the given outcome.
AloneResult(op, p, outcome) ==
    IF currentRepoPath = NoPath
    THEN IF op = "fileExists" THEN Value ELSE NotInitialized
    ELSE CASE op = "readFile" ->
                ReadFileResult(outcome, Content(disk[currentRepoPath].tree, p), p)
           [] op = "fileExists" -> ExistsResult(outcome)
           [] OTHER ->
                ListDirectoryResult(outcome, Entries(disk[currentRepoPath].tree, p), p)

\* The outcomes the access of op(p) can have in the present state.
AloneOutcomes(op, p) ==
    IoOutcomes(PathKind(disk, currentRepoPath, p),
               CASE op = "readFile" -> {"file"}
                 [] op = "fileExists" -> {"file", "dir"}
                 [] OTHER -> {"dir"})

\* No step of a read operation changes the path, the repository object,
\* the disk or anything but the caller's own call, whatever its outcome.
C18_Frame ==
    \A c \in Procs :
        (calls'[c].op \in ReadOps /\ calls'[c] # calls[c]) =>
            /\ UNCHANGED <<currentRepo, currentRepoPath, disk, nextDir, remote, hist>>
            /\ \A o \in Procs \ {c} : calls'[o] = calls[o]

\* While the handle has not changed since a read was called, its result is
\* the one the same read gives when run alone, however the reads of the
\* other caller were interleaved with it.
C18_AsAlone ==
    \A c \in Procs :
        (/\ calls[c].op \in ReadOps /\ calls[c].pc = "done"
         /\ calls[c].prev = hist /\ ~LifecycleRunning) =>
            /\ calls[c].seenPath = currentRepoPath
            /\ calls[c].io =>
                  /\ calls[c].ret.err \in AloneOutcomes(calls[c].op, calls[c].arg)
                  /\ calls[c].result =
                        AloneResult(calls[c].op, calls[c].arg, calls[c].ret.err)
            /\ ~calls[c].io =>
                  calls[c].result = AloneResult(calls[c].op, calls[c].arg, "ok")

\* Two reads of the same path by the same operation, called on the same
\* handle and meeting the same outcome of the access, give the same result.
C18_Agree ==
    \A c, o \in Procs :
        (/\ calls[c].op \in ReadOps /\ calls[c].pc = "done"
         /\ calls[o].pc = "done" /\ calls[o].op = calls[c].op
         /\ calls[o].arg = calls[c].arg /\ calls[o].prev = calls[c].prev
         /\ calls[o].ret = calls[c].ret) =>
            calls[o].result = calls[c].result

\* C18: readFile, fileExists and listDirectory are side-effect free: in
\* every handle state and for every outcome they leave the path, the
\* repository object and the working copy unchanged, so reads interleaved
\* with each other on a stable handle return what they return one after
\* another.
C18_ReadsSideEffectFree == []C18_AsAlone /\ []C18_Agree /\ [][C18_Frame]_vars

\* Two reads were called on the same READY handle, a listDirectory of a
\* directory that is not in the working copy, still in progress, and a
\* readFile that has returned the content of its file.
C18_Witness ==
    /\ Ready
    /\ calls[1].pc = "io_wait" /\ calls[1].op = "listDirectory"
    /\ PathKind(disk, currentRepoPath, calls[1].arg) = "none"
    /\ calls[2].pc = "done" /\ calls[2].op = "readFile"
    /\ calls[2].prev = calls[1].prev
    /\ calls[2].result = [Value EXCEPT !.text =
                            Content(disk[currentRepoPath].tree, calls[2].arg)]

\* A readFile by a reader has thrown err.
ReadFailed(c, err) ==
    /\ calls[c].op = "readFile" /\ calls[c].pc = "done"
    /\ calls[c].result.kind = "error" /\ calls[c].result.err = err

\* An initialize called on a READY handle is in progress.
Reinitializing(c) ==
    calls[c].op = "initialize" /\ Running(c) /\ calls[c].seenPath # NoPath

\* Nothing locks the handle: an initialize can be called while reads are
\* in progress, a readFile can be called while an initialize is, and a
\* running initialize takes its next step whatever the reads are doing.
C19_NoLock ==
    /\ (~Running(1) /\ nextDir + PendingDirs < MaxDirs) => ENABLED InitBegin(1, FALSE)
    /\ \A c \in Readers : ~Running(c) => ENABLED ReadIndexBegin(c)
    /\ calls[1].pc = "init_rm_wait" => ENABLED RemoveExec(1)
    /\ calls[1].pc = "init_rm_ret" => ENABLED InitRmResume(1)

\* What the overlap does to a read: a readFile fails with FileNotFound for
\* a path that was in the working copy when it was called only if that
\* directory was removed under it, and with NotInitialized after a
\* successful initialize only if it found the pair cleared by the
\* initialize replacing it.
C19_MidTransition ==
    \A c \in Readers :
        /\ (ReadFailed(c, "FileNotFound") /\ calls[c].seenKind = "file") =>
              /\ calls[c].dest = calls[c].seenPath
              /\ disk[calls[c].dest].kind # "clone"
        /\ (ReadFailed(c, "NotInitialized") /\ calls[c].prev = hist /\ hist.ok) =>
              /\ Reinitializing(1)
              /\ calls[1].seenPath = hist.path
              /\ currentRepoPath = NoPath

\* C19: there is no locking around the handle, so an initialize overlapping
\* a read lets the read see the handle mid-transition: a readFile of a path
\* present in the working copy fails with FileNotFound when the directory
\* is removed between its path computation and its disk access, and a
\* readFile called while the re-initialize is cloning fails with
\* NotInitialized.
C19_ReadsSeeHandleMidTransition == C19_NoLock /\ C19_MidTransition

\* Both interleavings in one run: after a successful initialize the second
\* caller's readFile("index.json"), called while the file was there, failed
\* with FileNotFound; the third caller's, called while the re-initialize
\* is cloning, failed with NotInitialized.
C19_Witness ==
    /\ Reinitializing(1) /\ calls[1].pc = "clone_wait"
    /\ hist.op = "initialize" /\ hist.ok
    /\ ReadFailed(2, "FileNotFound")
    /\ calls[2].seenKind = "file"
    /\ calls[2].prev = hist
    /\ calls[2].dest = calls[1].seenPath
    /\ ReadFailed(3, "NotInitialized")
    /\ calls[3].prev = hist

RemovePcs == {"init_rm_wait", "retry_rm_wait", "cleanup_rm_wait"}

\* The removal never raises: whatever Deno.remove does, the caller goes on
\* after cleanupOldRepo with nothing thrown; a directory that is not there
\* is ignored without a log line, and a failure is logged and leaves the
\* directory on disk.
C20_RemoveNeverRaises ==
    \A c \in Procs :
        (calls[c].pc \in RemovePcs /\ calls'[c] # calls[c]) =>
            /\ calls'[c].pc =
                  (CASE calls[c].pc = "init_rm_wait" -> "init_rm_ret"
                     [] calls[c].pc = "retry_rm_wait" -> "retry_rm_ret"
                     [] OTHER -> "cleanup_rm_ret")
            /\ calls'[c].result = NoResult
            /\ disk[calls[c].dest].kind = "absent" =>
                  /\ calls'[c].rmFailed = calls[c].rmFailed
                  /\ disk' = disk
            /\ calls'[c].rmFailed # calls[c].rmFailed =>
                  /\ calls'[c].rmFailed = calls[c].rmFailed \cup {calls[c].dest}
                  /\ disk'[calls[c].dest].kind # "absent"

\* After a failed removal of the old copy the initialize goes on (the
\* handle cleared, a new directory other than the old path, the clone
\* attempted), and the teardown returns with the handle UNINITIALIZED.
C20_GoesOn ==
    \A c \in Procs :
        LET call == calls[c]
            old == call.seenPath
        IN  (old # NoPath /\ old \in call.rmFailed) =>
                /\ call.op \in {"initialize", "teardown"}
                /\ (call.op = "initialize" /\ call.pc \in {"init_mk_wait", "init_mk_ret"}) =>
                      Uninit
                /\ (call.op = "initialize" /\ call.pc = "init_mk_ret") =>
                      call.ret.path # old
                /\ (call.op = "initialize" /\ call.pc \notin
                        {"init_rm_ret", "init_mk_wait", "init_mk_ret"}) =>
                      /\ call.dest # old
                      /\ call.attempt >= 1
                      /\ disk[old].kind # "absent"
                      /\ InitSucceeded(c) => currentRepoPath = call.dest
                      /\ ~InitSucceeded(c) => Uninit
                /\ (call.op = "teardown" /\ call.pc = "done") =>
                      /\ call.result = Value
                      /\ Uninit

\* C20: deletion during cleanup is best-effort and never raises: a missing
\* directory is ignored and any other failure is only logged, so a
\* re-initialize whose removal of the old copy fails still clears the
\* handle, takes a new directory other than the old path and goes on to
\* clone, and a teardown whose removal fails still returns normally with
\* the handle UNINITIALIZED.
C20_BestEffortDeletion == []C20_GoesOn /\ [][C20_RemoveNeverRaises]_vars

\* The removal of the old copy failed, and the re-initialize succeeded in
\* a new directory with the old one still on disk.
C20_Witness ==
    \E c \in Procs :
        /\ InitSucceeded(c)
        /\ calls[c].seenPath # NoPath
        /\ calls[c].seenPath \in calls[c].rmFailed
        /\ disk[calls[c].seenPath].kind # "absent"
        /\ calls[c].result.path # calls[c].seenPath
        /\ currentRepoPath = calls[c].result.path

\* C21: the pairing also holds when lifecycle calls overlap at their
\* awaits: under every interleaving of initialize, refresh and teardown,
\* whenever no call is in progress the path is null if and only if the
\* repository object is null.
C21_PathAndRepoTogetherOverlapping ==
    NoneRunning => (currentRepoPath = NoPath <=> currentRepo = NoRepo)

\* Two initialize calls that started from the same state of the handle
\* have both returned a path.
BothInitialized(c, o) ==
    /\ c # o
    /\ InitSucceeded(c) /\ InitSucceeded(o)
    /\ calls[c].prev = calls[o].prev

\* C22: when two initialize calls overlap and both clones succeed, after
\* both have returned the handle references the directory of one of them
\* and the directory of the other is not left on disk.
C22_OneCopyAfterOverlappingInitialize ==
    \A c, o \in Procs :
        (BothInitialized(c, o) /\ NoneRunning) =>
            /\ currentRepoPath \in {calls[c].result.path, calls[o].result.path}
            /\ \A d \in {calls[c].result.path, calls[o].result.path} \ {currentRepoPath} :
                  disk[d].kind = "absent"

\* The first teardown and the first initialize of a run overlapped: each
\* was called before any lifecycle call had completed, so the teardown,
\* which found the handle UNINITIALIZED and returned at once, was called
\* while the initialize was in progress.
TeardownDuringInitialize(c, o) ==
    /\ TeardownDone(c) /\ calls[c].prev = NoHist
    /\ InitDone(o) /\ calls[o].prev = NoHist

\* C23: once a teardown called during an initialize and that initialize
\* have both completed, the handle is UNINITIALIZED and no directory made
\* by the mirror remains on disk.
C23_TeardownDuringInitializeWins ==
    \A c, o \in Procs :
        (TeardownDuringInitialize(c, o) /\ NoneRunning) =>
            /\ Uninit
            /\ OnDisk = {}

\* A tool or resource request has reached its handler.
Served(c) == reqs[c].kind \in ToolNames \cup ResourceNames

\* A shutdown has been called.
ShuttingDown == \E s \in SignalProcs : reqs[s].kind = "shutdown"

\* What is registered and connected, and when: nothing before initialize
\* has succeeded; requests are handled only by a connected server with its
\* tools and resources registered; until a shutdown is called the handle
\* of a server that was created is READY, so no request finds it
\* UNINITIALIZED; and when initialize fails the process exits with code 1
\* with no server created or connected.
C24_Startup ==
    /\ proc.pc = "start" =>
          ~proc.server /\ ~proc.tools /\ ~proc.resources /\ ~proc.listeners
          /\ ~proc.connected
    /\ proc.connected => proc.server /\ proc.tools /\ proc.resources
    /\ \A c \in Procs : Served(c) => proc.connected
    /\ (proc.server /\ ~ShuttingDown) => Ready
    /\ \A c \in Procs :
          (Served(c) /\ ~ShuttingDown) => calls[c].result.err # "NotInitialized"
    /\ InitFailed(Main) =>
          /\ proc.exit = 1 \/ proc.pc = "start"
          /\ ~proc.server /\ ~proc.connected
          /\ calls[Main].attempt = MAX_RETRIES

\* The server is created and registered in the step where main takes a
\* successful initialize, the transport is connected in a later step, and
\* a failed initialize is answered by exit code 1 in one step.
C24_Order ==
    /\ (~proc.server /\ proc'.server) =>
          /\ InitSucceeded(Main)
          /\ Ready /\ currentRepoPath = calls[Main].result.path
          /\ ~proc'.connected
    /\ (~proc.connected /\ proc'.connected) => proc.server /\ proc.tools /\ proc.resources
    /\ (InitFailed(Main) /\ proc.pc = "start" /\ proc' # proc) => proc'.exit = 1

\* C24: at process start the server registers its tools and resources and
\* connects the transport only after initialize has succeeded: no tool or
\* resource request is served while the handle is UNINITIALIZED at
\* startup, and if initialize fails the process exits with code 1 without
\* creating or connecting the server.
C24_ServesOnlyAfterInitialize == []C24_Startup /\ [][C24_Order]_vars

\* The connected server has answered a request without error, no shutdown
\* called, the handle READY on the copy main's initialize cloned.
C24_Witness ==
    \E c \in Handlers :
        /\ Served(c) /\ reqs[c].pc = "done"
        /\ reqs[c].out.kind = "result" /\ ~reqs[c].out.isError
        /\ proc.connected /\ proc.pc = "serving"
        /\ ~ShuttingDown
        /\ Ready
        /\ disk[currentRepoPath].tree = 2

\* The shutdown whose Deno.exit(0) ended the process.
Exited(c) == reqs[c].kind = "shutdown" /\ reqs[c].pc = "done"

\* The directories whose removal by a shutdown failed and was logged.
ShutdownRmFailed == UNION {calls[s].rmFailed : s \in SignalProcs}

\* C25 as stated: on a shutdown signal received after the listeners are
\* registered, the working copy is deleted and the handle cleared before
\* the process exits with code 0.
C25_DeletedBeforeExit ==
    proc.exit = 0 =>
        /\ \E s \in SignalProcs : Exited(s) /\ calls[s].op = "teardown"
        /\ currentRepo = NoRepo /\ currentRepoPath = NoPath
        /\ OnDisk = {}

\* C25 as amended: on a shutdown signal received after the listeners are
\* registered, the removal of the working copy has been attempted (the copy
\* is gone unless the removal failed, which is only logged) and the handle
\* cleared before the process exits with code 0; a second signal arriving
\* while the first shutdown is deleting does not raise and does not
\* prevent the exit.  Exit code 0 comes from a shutdown whose cleanup has
\* returned, the pair null and nothing left on disk but what a removal
\* failed to remove; no shutdown's cleanup raises, and a shutdown, first
\* or second, can always take its next step up to the exit.
C25_ShutdownCleansBeforeExit ==
    /\ proc.exit = 0 =>
          /\ \E s \in SignalProcs :
                /\ Exited(s)
                /\ calls[s].op = "teardown" /\ calls[s].result = Value
          /\ currentRepo = NoRepo /\ currentRepoPath = NoPath
          /\ OnDisk \subseteq ShutdownRmFailed
    /\ \A s \in SignalProcs :
          (reqs[s].kind = "shutdown" /\ Alive) =>
              /\ calls[s].result.kind # "error"
              /\ calls[s].op = "none" => ENABLED ShutdownCleanup(s)
              /\ calls[s].pc = "cleanup_rm_wait" => ENABLED RemoveExec(s)
              /\ calls[s].pc \in {"cleanup_rm_ret", "done"} =>
                    ENABLED ShutdownResume(s)

\* Two signals: the second shutdown was called while the first was
\* deleting, and the process has exited with code 0, the copy removed.
C25_Witness ==
    /\ proc.exit = 0
    /\ \A s \in SignalProcs :
          /\ reqs[s].kind = "shutdown"
          /\ calls[s].op = "teardown" /\ calls[s].seenPath # NoPath
    /\ currentRepo = NoRepo /\ currentRepoPath = NoPath
    /\ OnDisk = {}

\* The tool requests whose handler has returned or thrown.
ToolDone(c) == reqs[c].kind \in ToolNames /\ reqs[c].pc = "done"

\* The failure the handler of the finished request c ran into outside the
\* inner try of search_feps, if any: of loadIndex, of the lookup of the
\* slug, of get_fep's read of the document, of refreshRepository.
ToolFailures(c) ==
    LET req == reqs[c]
        call == calls[c]
        inner == req.kind = "search_feps" /\ call.arg # "index.json"
    IN  (IF call.result.kind = "error" /\ ~inner THEN {call.result} ELSE {})
        \cup (IF /\ req.kind = "get_fep"
                 /\ call.arg = "index.json"
                 /\ call.result.kind = "value"
                 /\ req.slug \notin ParseIndex(call.result.text)
              THEN {LookupError(req.slug)} ELSE {})

\* C26: no tool handler throws to the protocol layer: every mirror error
\* and every lookup error comes back as a result with isError set and a
\* text that starts with "Error: " and goes on with the error's message; a
\* success result has no isError; in search_feps a document that cannot be
\* read is passed over and the search still succeeds.
C26_ToolsReturnErrors ==
    /\ \A err \in {"NotInitialized", "FileNotFound", "FetchFailed",
                   "IOError", "FepNotFound"} :
          LET out == ToolCatch(Failure(err, NoError))
          IN  out.kind = "result" /\ out.isError /\ Head(out.text) = "Error: "
    /\ \A c \in Handlers :
          ToolDone(c) =>
              LET out == reqs[c].out
              IN  /\ out.kind = "result"
                  /\ out.isError <=> ToolFailures(c) # {}
                  /\ out.isError <=> Head(out.text) = "Error: "
                  /\ \A failure \in ToolFailures(c) :
                        out.text = <<"Error: ">> \o Message(failure)
                  /\ (/\ reqs[c].kind = "search_feps"
                      /\ calls[c].arg # "index.json"
                      /\ calls[c].result.kind = "error") =>
                        ~out.isError /\ reqs[c].swallowed = 1

\* A search has returned its result, without isError, although the read of
\* the entry's document failed.
C26_Witness ==
    \E c \in Handlers :
        /\ ToolDone(c)
        /\ reqs[c].kind = "search_feps"
        /\ calls[c].op = "readFile" /\ calls[c].arg = "fep/1b12/fep-1b12.md"
        /\ calls[c].result.kind = "error"
        /\ reqs[c].swallowed = 1
        /\ reqs[c].out.kind = "result" /\ ~reqs[c].out.isError

====
